---- MODULE Spec2Model ----
(***************************************************************************)
(* King Tiles: the board account of programs/king_tiles and the            *)
(* instruction handlers that change it.  One transaction is one action: a  *)
(* handler that returns an error (or panics) leaves the account as it was, *)
(* as the runtime discards the writes of a failed transaction.             *)
(***************************************************************************)
EXTENDS Integers, Sequences, FiniteSets, TLC

(* ------------------------------ constants.rs --------------------------- *)
EMPTY == 0
KING_MARK == 5
BOARD_SIZE == 144
REGISTRATION_FEE_LAMPORTS == 1000000
LAMPORTS_PER_SCORE == 29000
POWERUP_MARK == 6
POWERUP_SCORE == 4
BOMB_MARK == 7
KING_STARTING_POSITION == 65
\* register_player: clock.unix_timestamp.checked_add(60)
SESSION_SECONDS == 60

(* ------------------------------ model bounds --------------------------- *)
\* accepted instructions other than start_game_session / register_player
MaxOps == 2
\* clock advances, each of SESSION_SECONDS
MaxTicks == 1
\* the sampled VRF candidates are the CandSpan+1 cells starting CandBack cells
\* before the end of the board (so the probe's wrap to cell 0 is exercised)
CandBack == 1
CandSpan == 5

Directions == {"Up", "Down", "Left", "Right"}
SideLens == {8, 10, 12}
PlayerCaps == {2, 4, 6}

(* ------------------------------ state.rs ------------------------------- *)
\* Direction::offset
offset(direction, board_side_len) ==
    CASE direction = "Right" -> 1
      [] direction = "Left"  -> -1
      [] direction = "Down"  -> board_side_len
      [] direction = "Up"    -> -board_side_len

\* the cell count of the full array, whatever the side of the session
active_board_cells_of_full_array(b) == BOARD_SIZE

\* Board::active_board_cells
active_board_cells(b) == b.board_side_len * b.board_side_len

\* i16::rem_euclid with a positive modulus
\* the remainder of Rust's % operator, which keeps the sign of the dividend
rem_truncated(a, m) == IF a < 0 THEN -((-a) % m) ELSE a % m

rem_euclid(a, m) == ((a % m) + m) % m

abs(x) == IF x < 0 THEN -x ELSE x

(* ------------------------------ movement.rs ---------------------------- *)
\* players is a Vec indexed from 0; the model's sequence is indexed from 1
PlayerAt(b, player_index) == b.players[player_index + 1]

\* A resolution context: the account being mutated, the events emitted so
\* far, and for every basic push the state in which the pushing player is
\* written into the vacated cell.
Ctx(b) ==
    [acct |-> b, events |-> <<>>, chain |-> <<>>, target |-> -1, panic |-> FALSE]

Emit(st, kind, player_index) ==
    [st EXCEPT !.events = Append(@, [kind |-> kind, player_index |-> player_index])]

\* new_position_is_empty leaving the player's mark on the cell it came from
new_position_is_empty_leaves_trail(st, player_index, new_position) ==
    LET b == st.acct
        board1 == [b.board EXCEPT ![new_position] = PlayerAt(b, player_index).id]
    IN  [st EXCEPT !.acct.board = board1,
                   !.acct.players[player_index + 1].current_position = new_position]

new_position_is_empty(st, player_index, new_position) ==
    LET b == st.acct
        current_position == PlayerAt(b, player_index).current_position
        board1 == [b.board EXCEPT ![new_position] = PlayerAt(b, player_index).id]
        board2 == [board1 EXCEPT ![current_position] = EMPTY]
    IN  [st EXCEPT !.acct.board = board2,
                   !.acct.players[player_index + 1].current_position = new_position]

\* new_position_is_king crediting the landing itself with a point
new_position_is_king_scores(st, player_index, new_position) ==
    LET b == st.acct
        board1 == [b.board EXCEPT ![new_position] = PlayerAt(b, player_index).id]
        current_position == PlayerAt(b, player_index).current_position
        board2 == [board1 EXCEPT ![current_position] = EMPTY]
    IN  [st EXCEPT !.acct.board = board2,
                   !.acct.players[player_index + 1].current_position = new_position,
                   !.acct.players[player_index + 1].score = @ + 1]

new_position_is_king(st, player_index, new_position) ==
    LET b == st.acct
        board1 == [b.board EXCEPT ![new_position] = PlayerAt(b, player_index).id]
        current_position == PlayerAt(b, player_index).current_position
        board2 == [board1 EXCEPT ![current_position] = EMPTY]
    IN  [st EXCEPT !.acct.board = board2,
                   !.acct.players[player_index + 1].current_position = new_position]

new_position_is_powerup(st, player_index, new_position) ==
    LET b == st.acct
        current_position == PlayerAt(b, player_index).current_position
        board1 == [b.board EXCEPT ![new_position] = PlayerAt(b, player_index).id]
        board2 == [board1 EXCEPT ![current_position] = EMPTY]
        st1 == Emit(st, "PlayerScoredPowerupEvent", player_index)
    IN  [st1 EXCEPT !.acct.board = board2,
                    !.acct.players[player_index + 1].current_position = new_position,
                    !.acct.players[player_index + 1].powerup_score = POWERUP_SCORE]

check_if_player_exists(i, b) ==
    /\ b.board[i] # EMPTY
    /\ b.board[i] # KING_MARK
    /\ b.board[i] # BOMB_MARK
    /\ b.board[i] # POWERUP_MARK

\* new_position_is_bomb warping to the starting cell without probing
bomb_landing_home_only(board, landing, left, board_cells) == landing

\* the landing loop of new_position_is_bomb: at most board_cells probes
RECURSIVE bomb_landing(_, _, _, _)
bomb_landing(board, landing, left, board_cells) ==
    IF left = 0 \/ board[landing] = EMPTY
    THEN landing
    ELSE bomb_landing(board, (landing + 1) % board_cells, left - 1, board_cells)

\* new_position_is_bomb crediting the player, as the name of its event suggests
new_position_is_bomb_scores(st, player_index, new_position) ==
    LET b == st.acct
        board_cells == active_board_cells(b)
        st1 == Emit(st, "PlayerScoredBombEvent", player_index)
        player_id == PlayerAt(b, player_index).id
        current_position == PlayerAt(b, player_index).current_position
        board1 == [b.board EXCEPT ![current_position] = EMPTY]
        board2 == [board1 EXCEPT ![new_position] = EMPTY]
        landing == bomb_landing(board2, player_index, board_cells, board_cells)
    IN  [st1 EXCEPT !.acct.board = [board2 EXCEPT ![landing] = player_id],
                    !.acct.players[player_index + 1].current_position = landing,
                    !.acct.players[player_index + 1].score = @ + 1]

new_position_is_bomb(st, player_index, new_position) ==
    LET b == st.acct
        board_cells == active_board_cells(b)
        st1 == Emit(st, "PlayerScoredBombEvent", player_index)
        player_id == PlayerAt(b, player_index).id
        current_position == PlayerAt(b, player_index).current_position
        board1 == [b.board EXCEPT ![current_position] = EMPTY]
        board2 == [board1 EXCEPT ![new_position] = EMPTY]
        landing == bomb_landing(board2, player_index, board_cells, board_cells)
    IN  [st1 EXCEPT !.acct.board = [board2 EXCEPT ![landing] = player_id],
                    !.acct.players[player_index + 1].current_position = landing]

\* player_id_to_index panics on id 0; indexing players past its length panics
ValidPlayerIndex(b, player_id) == player_id >= 1 /\ player_id <= Len(b.players)

RECURSIVE check_board_for_new_position(_, _, _, _)
RECURSIVE new_position_is_occupied_by_player(_, _, _, _)

\* the basic push sending the collided player one step against the move
new_position_is_occupied_by_player_pushes_back(st, player_index, move_position, new_position) ==
    LET b == st.acct
        board_cells == active_board_cells(b)
        board_side_len == b.board_side_len
        collision_player_id == b.board[new_position]
        collision_player_index == collision_player_id - 1
    IN
    IF ~ValidPlayerIndex(b, collision_player_id)
    THEN [st EXCEPT !.panic = TRUE]
    ELSE
    LET collision_player_current_position ==
            PlayerAt(b, collision_player_index).current_position
    IN
    IF abs(move_position) = 1 \/ abs(move_position) = board_side_len
    THEN
        LET collision_player_new_position ==
                rem_euclid(collision_player_current_position - move_position,
                           board_cells)
            st1 == check_board_for_new_position(st, collision_player_index,
                       collision_player_new_position, move_position)
            st2 == [st1 EXCEPT !.chain = Append(@,
                       [mover  |-> player_index,
                        dest   |-> new_position,
                        cell   |-> st1.acct.board[new_position],
                        pushed |-> collision_player_index,
                        pushed_pos |->
                            PlayerAt(st1.acct, collision_player_index).current_position])]
        IN  IF st1.panic THEN st1
            ELSE new_position_is_empty(st2, player_index, new_position)
    ELSE
        LET single_step ==
                IF abs(move_position) >= board_side_len
                THEN (IF move_position > 0 THEN board_side_len ELSE -board_side_len)
                ELSE (IF move_position > 0 THEN 1 ELSE -1)
            new_pos == rem_euclid(collision_player_current_position + single_step,
                                  board_cells)
        IN  IF b.board[new_pos] = EMPTY
            THEN new_position_is_empty(
                     new_position_is_empty(st, collision_player_index, new_pos),
                     player_index, new_position)
            ELSE st

new_position_is_occupied_by_player(st, player_index, move_position, new_position) ==
    LET b == st.acct
        board_cells == active_board_cells(b)
        board_side_len == b.board_side_len
        collision_player_id == b.board[new_position]
        collision_player_index == collision_player_id - 1
    IN
    IF ~ValidPlayerIndex(b, collision_player_id)
    THEN [st EXCEPT !.panic = TRUE]
    ELSE
    LET collision_player_current_position ==
            PlayerAt(b, collision_player_index).current_position
    IN
    IF abs(move_position) = 1 \/ abs(move_position) = board_side_len
    THEN
        LET collision_player_new_position ==
                rem_euclid(collision_player_current_position
                               + move_position + move_position, board_cells)
            st1 == check_board_for_new_position(st, collision_player_index,
                       collision_player_new_position, move_position)
            st2 == [st1 EXCEPT !.chain = Append(@,
                       [mover  |-> player_index,
                        dest   |-> new_position,
                        cell   |-> st1.acct.board[new_position],
                        pushed |-> collision_player_index,
                        pushed_pos |->
                            PlayerAt(st1.acct, collision_player_index).current_position])]
        IN  IF st1.panic THEN st1
            ELSE new_position_is_empty(st2, player_index, new_position)
    ELSE
        LET single_step ==
                IF abs(move_position) >= board_side_len
                THEN (IF move_position > 0 THEN board_side_len ELSE -board_side_len)
                ELSE (IF move_position > 0 THEN 1 ELSE -1)
            new_pos == rem_euclid(collision_player_current_position + single_step,
                                  board_cells)
        IN  IF b.board[new_pos] = EMPTY
            THEN new_position_is_empty(
                     new_position_is_empty(st, collision_player_index, new_pos),
                     player_index, new_position)
            ELSE st

check_board_for_new_position(st, player_index, new_position, move_position) ==
    LET cell == st.acct.board[new_position] IN
    IF cell = EMPTY THEN new_position_is_empty(st, player_index, new_position)
    ELSE IF cell = KING_MARK
    THEN Emit(new_position_is_king(st, player_index, new_position),
              "PlayerScoredEvent", player_index)
    ELSE IF cell = BOMB_MARK THEN new_position_is_bomb(st, player_index, new_position)
    ELSE IF cell = POWERUP_MARK
    THEN new_position_is_powerup(st, player_index, new_position)
    ELSE new_position_is_occupied_by_player(st, player_index, move_position,
                                            new_position)

\* the scan loop of use_power_with_direction, entered with index i
RECURSIVE power_scan(_, _, _, _)
power_scan(st, player_index, power_use_direction, i) ==
    LET b == st.acct
        board_cells == active_board_cells(b)
        board_side_len == b.board_side_len
        current_position == PlayerAt(b, player_index).current_position
        step == abs(power_use_direction)
        from_row == rem_euclid(current_position, board_side_len)
        cur_row == (current_position \div board_side_len) * board_side_len
    IN
    IF i < 0 \/ i >= board_cells THEN st
    ELSE IF step = 1 /\ (\/ (from_row = 0 /\ power_use_direction < 0)
                         \/ (from_row = board_side_len - 1 /\ power_use_direction > 0)
                         \/ i < cur_row
                         \/ i >= cur_row + board_side_len)
    THEN st
    ELSE IF check_if_player_exists(i, b)
    THEN
        LET attacked_player_id == b.board[i]
            attacked_player_index == attacked_player_id - 1
        IN
        IF ~ValidPlayerIndex(b, attacked_player_id)
        THEN [st EXCEPT !.panic = TRUE]
        ELSE
        LET attacked_player_current_position ==
                PlayerAt(b, attacked_player_index).current_position
            new_position_offset == POWERUP_SCORE * power_use_direction
            attacked_player_new_position ==
                rem_euclid(attacked_player_current_position + new_position_offset,
                           board_cells)
            st1 == check_board_for_new_position(
                       [st EXCEPT !.target = attacked_player_index],
                       attacked_player_index, attacked_player_new_position,
                       new_position_offset)
        IN  [st1 EXCEPT !.acct.players[player_index + 1].powerup_score = 0]
    ELSE power_scan(st, player_index, power_use_direction, i + power_use_direction)

\* use_power_with_direction leaving the charge as it was before the push
use_power_with_direction_keeps_charge(st, player_index, power_use_direction) ==
    [power_scan(st, player_index, power_use_direction,
                PlayerAt(st.acct, player_index).current_position + power_use_direction)
        EXCEPT !.acct.players[player_index + 1].powerup_score =
                   PlayerAt(st.acct, player_index).powerup_score]

\* use_power_with_direction clearing the charge after the loop, found or not
use_power_with_direction_always_clears(st, player_index, power_use_direction) ==
    [power_scan(st, player_index, power_use_direction,
                PlayerAt(st.acct, player_index).current_position + power_use_direction)
        EXCEPT !.acct.players[player_index + 1].powerup_score = 0]

use_power_with_direction(st, player_index, power_use_direction) ==
    power_scan(st, player_index, power_use_direction,
               PlayerAt(st.acct, player_index).current_position + power_use_direction)

(* ------------------------------ lib.rs --------------------------------- *)
\* valid_mode checking the side and the player count separately
valid_mode_any_pairing(board_side_len, max_players) ==
    board_side_len \in {8, 10, 12} /\ max_players \in {2, 4, 6}

valid_mode(board_side_len, max_players) ==
    \/ (board_side_len = 8 /\ max_players = 2)
    \/ (board_side_len = 10 /\ max_players = 4)
    \/ (board_side_len = 12 /\ max_players = 6)

\* called by start_game_session; its body is not part of the sources at hand
king_starting_position(board_side_len) ==
    ((board_side_len \div 2) - 1) * board_side_len + ((board_side_len \div 2) - 1)

Cells == 0 .. (BOARD_SIZE - 1)

\* the account before start_game_session has created it
NoAccount ==
    [players |-> <<>>, is_active |-> FALSE, board |-> [c \in Cells |-> EMPTY],
     board_side_len |-> 0, max_players |-> 0,
     registration_fee_lamports |-> 0, lamports_per_score |-> 0,
     players_count |-> 0, king_current_position |-> 0,
     game_end_timestamp |-> 0,
     powerup_current_position |-> 0, bomb_current_position |-> 0]

VARIABLES
    board_account,   \* the Board PDA
    initialized,     \* whether the PDA exists
    now,             \* Clock::get().unix_timestamp
    paid,            \* lamports transferred to each player by distribute_rewards
    ops,             \* accepted gameplay instructions so far
    last             \* the instruction just processed and its outcome

vars == <<board_account, initialized, now, paid, ops, last>>

\* what is recorded of a call: its arguments, its result, the account as it
\* was when the call arrived (pre), and what the movement helpers reported
Call(op, b) ==
    [op |-> op, err |-> "Ok", player_id |-> 0, direction |-> "none",
     payer |-> 0, position |-> 0, target |-> -1, events |-> <<>>,
     chain |-> <<>>, args |-> <<>>, pre |-> b]

NoCall == Call("none", NoAccount)

\* a failed transaction changes nothing but is seen by its caller; none is
\* tried once the run's MaxOps gameplay instructions have been accepted
Reject(op, err) ==
    /\ ops < MaxOps
    /\ last' = [Call(op, board_account) EXCEPT !.err = err]
    /\ UNCHANGED <<board_account, initialized, now, paid, ops>>

RejectCall(op, err, player_id, payer) ==
    /\ ops < MaxOps
    /\ last' = [Call(op, board_account) EXCEPT !.err = err, !.player_id = player_id,
                                               !.payer = payer]
    /\ UNCHANGED <<board_account, initialized, now, paid, ops>>

RejectAt(op, err, position) ==
    /\ ops < MaxOps
    /\ last' = [Call(op, board_account) EXCEPT !.err = err, !.position = position]
    /\ UNCHANGED <<board_account, initialized, now, paid, ops>>

RejectArgs(op, err, args) ==
    /\ ops < MaxOps
    /\ last' = [Call(op, board_account) EXCEPT !.err = err, !.args = args]
    /\ UNCHANGED <<board_account, initialized, now, paid, ops>>

Init ==
    /\ board_account = NoAccount
    /\ initialized = FALSE
    /\ now = 0
    /\ paid = <<>>
    /\ ops = 0
    /\ last = NoCall

Accepted(op, player_id, direction, payer, position, st) ==
    [op |-> op, err |-> "Ok", player_id |-> player_id, direction |-> direction,
     payer |-> payer, position |-> position, target |-> st.target,
     events |-> st.events, chain |-> st.chain, args |-> <<>>,
     pre |-> board_account]

\* the k-th registration is signed by wallet k; wallet 0 never registers
Signers(player_id) == {0, player_id}

\* the arguments tried for start_game_session
StartArgs ==
    { <<s, m, REGISTRATION_FEE_LAMPORTS, LAMPORTS_PER_SCORE>> :
          s \in SideLens, m \in PlayerCaps }
    \cup { <<8, 2, 0, LAMPORTS_PER_SCORE>>, <<8, 2, REGISTRATION_FEE_LAMPORTS, 0>>,
           <<8, 2, 0, 0>> }

\* ephemeral_vrf_sdk::rnd::random_u8_with_range(&randomness, 0, active_cells - 1)
Candidates(b) ==
    IF active_board_cells(b) = 0 THEN {}
    ELSE { (active_board_cells(b) - CandBack + k) % active_board_cells(b) :
               k \in 0 .. CandSpan }

\* start_game_session placing the King on the 12x12 constant for every side
start_game_session_writes_fixed_king(board_side_len, max_players, registration_fee_lamports, lamports_per_score) ==
    [players |-> <<>>, is_active |-> FALSE,
     board |-> [c \in Cells |-> IF c = KING_STARTING_POSITION THEN KING_MARK ELSE EMPTY],
     board_side_len |-> board_side_len, max_players |-> max_players,
     registration_fee_lamports |-> registration_fee_lamports,
     lamports_per_score |-> lamports_per_score,
     players_count |-> 0, king_current_position |-> KING_STARTING_POSITION,
     game_end_timestamp |-> 0,
     powerup_current_position |-> 0, bomb_current_position |-> 0]

\* start_game_session filling the board with the King mark
start_game_session_writes_no_empty_cell(board_side_len, max_players, registration_fee_lamports, lamports_per_score) ==
    LET king_position == king_starting_position(board_side_len) IN
    [players |-> <<>>, is_active |-> FALSE,
     board |-> [c \in Cells |-> KING_MARK],
     board_side_len |-> board_side_len, max_players |-> max_players,
     registration_fee_lamports |-> registration_fee_lamports,
     lamports_per_score |-> lamports_per_score,
     players_count |-> 0, king_current_position |-> king_position,
     game_end_timestamp |-> 0,
     powerup_current_position |-> 0, bomb_current_position |-> 0]

\* the account as start_game_session leaves it
start_game_session_writes(board_side_len, max_players, registration_fee_lamports, lamports_per_score) ==
    LET king_position == king_starting_position(board_side_len) IN
    [players |-> <<>>, is_active |-> FALSE,
     board |-> [c \in Cells |-> IF c = king_position THEN KING_MARK ELSE EMPTY],
     board_side_len |-> board_side_len, max_players |-> max_players,
     registration_fee_lamports |-> registration_fee_lamports,
     lamports_per_score |-> lamports_per_score,
     players_count |-> 0, king_current_position |-> king_position,
     game_end_timestamp |-> 0,
     powerup_current_position |-> 0, bomb_current_position |-> 0]

(* start_game_session: the account is created by the `init` constraint, so a *)
(* second call for the same game_id fails before the handler runs.           *)
start_game_session(board_side_len, max_players, registration_fee_lamports, lamports_per_score) ==
    LET args == <<board_side_len, max_players, registration_fee_lamports, lamports_per_score>>
    IN
    IF initialized THEN Reject("start_game_session", "AccountInUse")
    ELSE IF ~valid_mode(board_side_len, max_players)
    THEN RejectArgs("start_game_session", "InvalidGameConfig", args)
    ELSE IF ~(registration_fee_lamports > 0 /\ lamports_per_score > 0)
    THEN RejectArgs("start_game_session", "InvalidGameConfig", args)
    ELSE
        /\ board_account' = start_game_session_writes(board_side_len, max_players,
                                 registration_fee_lamports, lamports_per_score)
        /\ initialized' = TRUE
        /\ paid' = <<>>
        /\ last' = [Call("start_game_session", board_account) EXCEPT !.args = args]
        /\ UNCHANGED <<now, ops>>

\* register_player admitting one player more than max_players
register_player_checks_one_more(b) ==
    IF ~(b.players_count <= b.max_players) THEN "MaxPlayersReached"
    ELSE IF b.is_active THEN "GameAlreadyStarted"
    ELSE "Ok"

\* register_player looking at is_active before the capacity
register_player_checks_activity_first(b) ==
    IF b.is_active THEN "GameAlreadyStarted"
    ELSE IF ~(b.players_count < b.max_players) THEN "MaxPlayersReached"
    ELSE "Ok"

\* the require! checks of register_player
register_player_checks(b) ==
    IF ~(b.players_count < b.max_players) THEN "MaxPlayersReached"
    ELSE IF b.is_active THEN "GameAlreadyStarted"
    ELSE "Ok"

\* register_player starting the session at the first registration
register_player_writes_starts_early(b, payer, unix_timestamp) ==
    LET players_count == b.players_count
        player == [player |-> payer, score |-> 0,
                   current_position |-> b.players_count,
                   id |-> players_count + 1, powerup_score |-> 0]
        b1 == [b EXCEPT !.players = Append(@, player),
                        !.board[player.current_position] = player.id,
                        !.players_count = players_count + 1]
    IN  [b1 EXCEPT !.is_active = TRUE,
                   !.game_end_timestamp = unix_timestamp + SESSION_SECONDS]

\* register_player numbering the players from 0
register_player_writes_zero_based(b, payer, unix_timestamp) ==
    LET players_count == b.players_count
        player == [player |-> payer, score |-> 0,
                   current_position |-> b.players_count,
                   id |-> players_count, powerup_score |-> 0]
        b1 == [b EXCEPT !.players = Append(@, player),
                        !.board[player.current_position] = player.id,
                        !.players_count = players_count + 1]
    IN  IF b1.players_count = b1.max_players
        THEN [b1 EXCEPT !.is_active = TRUE,
                        !.game_end_timestamp = unix_timestamp + SESSION_SECONDS]
        ELSE b1

\* the account as an admitted register_player leaves it
register_player_writes(b, payer, unix_timestamp) ==
    LET players_count == b.players_count
        player == [player |-> payer, score |-> 0,
                   current_position |-> b.players_count,
                   id |-> players_count + 1, powerup_score |-> 0]
        b1 == [b EXCEPT !.players = Append(@, player),
                        !.board[player.current_position] = player.id,
                        !.players_count = players_count + 1]
    IN  IF b1.players_count = b1.max_players
        THEN [b1 EXCEPT !.is_active = TRUE,
                        !.game_end_timestamp = unix_timestamp + SESSION_SECONDS]
        ELSE b1

register_player(payer) ==
    /\ initialized
    /\ LET b == board_account
           err == register_player_checks(b)
       IN
       IF err # "Ok" THEN Reject("register_player", err)
       ELSE /\ board_account' = register_player_writes(b, payer, now)
            /\ paid' = Append(paid, 0)
            /\ last' = [Call("register_player", board_account) EXCEPT !.payer = payer,
                                      !.player_id = b.players_count + 1]
            /\ UNCHANGED <<initialized, now, ops>>

\* the outcome of a handler that ran the movement helpers on a copy st
Commit(op, player_id, direction, payer, position, st) ==
    IF st.panic THEN RejectCall(op, "Panic", player_id, payer)
    ELSE /\ board_account' = st.acct
         /\ last' = Accepted(op, player_id, direction, payer, position, st)
         /\ ops' = ops + 1
         /\ UNCHANGED <<initialized, now, paid>>

\* make_move without the comparison of the player's key with the signer
make_move_checks_any_signer(b, player_id, payer, unix_timestamp) ==
    IF ~(unix_timestamp < b.game_end_timestamp) THEN "GameEnded"
    ELSE IF ~b.is_active THEN "GameNotStarted"
    ELSE IF ~(b.players_count = b.max_players) THEN "GameNotFull"
    ELSE IF player_id = 0 THEN "Panic"
    ELSE IF ~((player_id - 1) < b.players_count) THEN "NotPlayer"
    ELSE IF ~(PlayerAt(b, player_id - 1).id = player_id) THEN "NotPlayer"
    ELSE "Ok"

\* make_move looking at the clock after the activity and fullness checks
make_move_checks_time_last(b, player_id, payer, unix_timestamp) ==
    IF ~b.is_active THEN "GameNotStarted"
    ELSE IF ~(b.players_count = b.max_players) THEN "GameNotFull"
    ELSE IF ~(unix_timestamp < b.game_end_timestamp) THEN "GameEnded"
    ELSE IF player_id = 0 THEN "Panic"
    ELSE IF ~((player_id - 1) < b.players_count) THEN "NotPlayer"
    ELSE IF ~(PlayerAt(b, player_id - 1).id = player_id) THEN "NotPlayer"
    ELSE IF ~(PlayerAt(b, player_id - 1).player = payer) THEN "NotPlayer"
    ELSE "Ok"

\* the require! checks of make_move, in order; player_id_to_index panics on 0
make_move_checks(b, player_id, payer, unix_timestamp) ==
    IF ~(unix_timestamp < b.game_end_timestamp) THEN "GameEnded"
    ELSE IF ~b.is_active THEN "GameNotStarted"
    ELSE IF ~(b.players_count = b.max_players) THEN "GameNotFull"
    ELSE IF player_id = 0 THEN "Panic"
    ELSE IF ~((player_id - 1) < b.players_count) THEN "NotPlayer"
    ELSE IF ~(PlayerAt(b, player_id - 1).id = player_id) THEN "NotPlayer"
    ELSE IF ~(PlayerAt(b, player_id - 1).player = payer) THEN "NotPlayer"
    ELSE "Ok"

make_move(player_id, payer, direction) ==
    /\ initialized
    /\ ops < MaxOps
    /\ LET b == board_account
           player_index == player_id - 1
           err == make_move_checks(b, player_id, payer, now)
       IN
       IF err # "Ok" THEN RejectCall("make_move", err, player_id, payer)
       ELSE
           LET move_position == offset(direction, b.board_side_len)
               active_cells == active_board_cells(b)
               current_position == PlayerAt(b, player_index).current_position
               new_position == rem_euclid(current_position + move_position, active_cells)
           IN  Commit("make_move", player_id, direction, payer, new_position,
                      check_board_for_new_position(Ctx(b), player_index, new_position,
                                                   move_position))

\* use_power without the check of the charge
use_power_checks_no_charge_needed(b, player_id) ==
    IF player_id = 0 THEN "Panic"
    ELSE IF ~((player_id - 1) < b.players_count) THEN "NotPlayer"
    ELSE "Ok"

\* the require! checks of use_power; player_id_to_index panics on 0
use_power_checks(b, player_id) ==
    IF player_id = 0 THEN "Panic"
    ELSE IF ~((player_id - 1) < b.players_count) THEN "NotPlayer"
    ELSE IF ~(PlayerAt(b, player_id - 1).powerup_score > 0) THEN "NoPowerup"
    ELSE "Ok"

use_power(player_id, direction) ==
    /\ initialized
    /\ ops < MaxOps
    /\ LET b == board_account
           player_index == player_id - 1
           err == use_power_checks(b, player_id)
       IN
       IF err # "Ok" THEN RejectCall("use_power", err, player_id, 0)
       ELSE
           LET power_use_direction == offset(direction, b.board_side_len) IN
           Commit("use_power", player_id, direction, 0,
                  PlayerAt(b, player_index).current_position,
                  use_power_with_direction(Ctx(b), player_index, power_use_direction))

\* the probe loop of the spawn callbacks: `while board[cell_index] != EMPTY`.
\* With no Empty cell the loop never ends and the transaction runs out of
\* compute units; the model returns -1 for that outcome.
RECURSIVE probe_empty(_, _, _, _)
probe_empty(board, cell_index, left, active_cells) ==
    IF left = 0 THEN -1
    ELSE IF board[cell_index] = EMPTY THEN cell_index
    ELSE probe_empty(board, (cell_index + 1) % active_cells, left - 1, active_cells)

\* a callback placing the tile on the sampled cell without probing
spawn_tile_unprobed(b, mark, old_position, sampled) ==
    LET board1 == IF b.board[old_position] = mark
                  THEN [b.board EXCEPT ![old_position] = EMPTY]
                  ELSE b.board
    IN  [cell_index |-> sampled, board |-> [board1 EXCEPT ![sampled] = mark]]

\* the body shared by the three callbacks: clear the tile's old cell if it
\* still carries the tile's mark, probe from the sampled cell, place the mark
spawn_tile(b, mark, old_position, sampled) ==
    LET active_cells == active_board_cells(b)
        board1 == IF b.board[old_position] = mark
                  THEN [b.board EXCEPT ![old_position] = EMPTY]
                  ELSE b.board
        cell_index == probe_empty(board1, sampled, active_cells, active_cells)
    IN  [cell_index |-> cell_index,
         board |-> IF cell_index = -1 THEN board1
                   ELSE [board1 EXCEPT ![cell_index] = mark]]

SpawnCommit(op, sampled, b1, hung) ==
    IF hung THEN Reject(op, "ComputeBudgetExceeded")
    ELSE /\ board_account' = b1
         /\ last' = [Call(op, board_account) EXCEPT !.position = sampled]
         /\ ops' = ops + 1
         /\ UNCHANGED <<initialized, now, paid>>

callback_bomb_drop(sampled) ==
    /\ initialized
    /\ ops < MaxOps
    /\ LET b == board_account
           r == spawn_tile(b, BOMB_MARK, b.bomb_current_position, sampled)
       IN  SpawnCommit("callback_bomb_drop", sampled,
                       [b EXCEPT !.board = r.board,
                                 !.bomb_current_position = r.cell_index],
                       r.cell_index = -1)

callback_king_move(sampled) ==
    /\ initialized
    /\ ops < MaxOps
    /\ LET b == board_account
           r == spawn_tile(b, KING_MARK, b.king_current_position, sampled)
       IN  SpawnCommit("callback_king_move", sampled,
                       [b EXCEPT !.board = r.board,
                                 !.king_current_position = r.cell_index],
                       r.cell_index = -1)

callback_spawn_powerup(sampled) ==
    /\ initialized
    /\ ops < MaxOps
    /\ LET b == board_account
           r == spawn_tile(b, POWERUP_MARK, b.powerup_current_position, sampled)
       IN  SpawnCommit("callback_spawn_powerup", sampled,
                       [b EXCEPT !.board = r.board,
                                 !.powerup_current_position = r.cell_index],
                       r.cell_index = -1)

\* set_king_position without the check that the cell is Empty
set_king_position_checks_any_cell(b, position) ==
    IF ~b.is_active THEN "GameNotStarted"
    ELSE IF ~(position < active_board_cells(b)) THEN "InvalidMove"
    ELSE "Ok"

\* the require! checks of set_king_position
set_king_position_checks(b, position) ==
    IF ~b.is_active THEN "GameNotStarted"
    ELSE IF ~(position < active_board_cells(b)) THEN "InvalidMove"
    ELSE IF ~(b.board[position] = EMPTY) THEN "InvalidMove"
    ELSE "Ok"

set_king_position(position) ==
    /\ initialized
    /\ ops < MaxOps
    /\ LET b == board_account
           err == set_king_position_checks(b, position)
       IN
       IF err # "Ok" THEN RejectAt("set_king_position", err, position)
       ELSE
           LET old_pos == b.king_current_position
               board1 == IF b.board[old_pos] = KING_MARK
                         THEN [b.board EXCEPT ![old_pos] = EMPTY]
                         ELSE b.board
           IN  /\ board_account' = [b EXCEPT !.board = [board1 EXCEPT ![position] = KING_MARK],
                                             !.king_current_position = position]
               /\ last' = [Call("set_king_position", board_account)
                            EXCEPT !.position = position]
               /\ ops' = ops + 1
               /\ UNCHANGED <<initialized, now, paid>>

\* the reward loop of distribute_rewards, with the players' own accounts
\* passed as the remaining accounts
RewardOf(b, i) == PlayerAt(b, i).score * b.lamports_per_score

\* distribute_rewards with the comparison of the clock reversed
distribute_rewards_checks_reversed(b, unix_timestamp) ==
    IF ~(unix_timestamp <= b.game_end_timestamp) THEN "GameNotOver" ELSE "Ok"

\* the require! check of distribute_rewards
distribute_rewards_checks(b, unix_timestamp) ==
    IF ~(unix_timestamp >= b.game_end_timestamp) THEN "GameNotOver" ELSE "Ok"

distribute_rewards ==
    /\ initialized
    /\ ops < MaxOps
    /\ LET b == board_account
           err == distribute_rewards_checks(b, now)
       IN
       IF err # "Ok" THEN Reject("distribute_rewards", err)
       ELSE /\ board_account' = [b EXCEPT !.is_active = FALSE]
            /\ paid' = [i \in 1 .. Len(paid) |->
                           IF i <= b.players_count
                           THEN paid[i] + RewardOf(b, i - 1) ELSE paid[i]]
            /\ last' = Call("distribute_rewards", board_account)
            /\ ops' = ops + 1
            /\ UNCHANGED <<initialized, now>>

update_player_score ==
    /\ initialized
    /\ ops < MaxOps
    /\ LET b == board_account
           king_current_position == b.king_current_position
           player_id_on_king_position == b.board[king_current_position]
       IN  /\ board_account' =
                  IF player_id_on_king_position >= 1
                     /\ player_id_on_king_position <= b.players_count
                  THEN [b EXCEPT !.players[player_id_on_king_position].score = @ + 1]
                  ELSE b
           /\ last' = [Call("update_player_score", board_account)
                        EXCEPT !.player_id = player_id_on_king_position]
           /\ ops' = ops + 1
           /\ UNCHANGED <<initialized, now, paid>>

\* the cluster clock moves on between transactions
Tick ==
    /\ ops < MaxOps
    /\ now < MaxTicks * SESSION_SECONDS
    /\ now' = now + SESSION_SECONDS
    /\ last' = Call("tick", board_account)
    /\ UNCHANGED <<board_account, initialized, paid, ops>>

Next ==
    \/ \E a \in StartArgs : start_game_session(a[1], a[2], a[3], a[4])
    \/ register_player(board_account.players_count + 1)
    \/ \E id \in 0 .. (board_account.max_players + 1), d \in Directions :
          \E w \in Signers(id) : make_move(id, w, d)
    \/ \E id \in 0 .. (board_account.max_players + 1), d \in Directions :
          use_power(id, d)
    \/ \E c \in Candidates(board_account) : callback_bomb_drop(c)
    \/ \E c \in Candidates(board_account) : callback_king_move(c)
    \/ \E c \in Candidates(board_account) : callback_spawn_powerup(c)
    \/ \E p \in Candidates(board_account) \cup {active_board_cells(board_account)} :
          set_king_position(p)
    \/ distribute_rewards
    \/ update_player_score
    \/ Tick

Spec == Init /\ [][Next]_vars

(* ------------------------------ mid-game boards ------------------------ *)
\* A board in play: every player on a cell of its own, each tile either
\* marked on an Empty cell (on) or already stepped on (its index is kept, the
\* mark is gone).  Activated at time 0.
Layout(side, n, positions, charges, king, bomb, powerup) ==
    [players |-> [i \in 1 .. n |->
                     [player |-> i, score |-> 0, current_position |-> positions[i],
                      id |-> i, powerup_score |-> charges[i]]],
     is_active |-> TRUE,
     board |-> [c \in Cells |->
                   IF \E i \in 1 .. n : positions[i] = c
                   THEN CHOOSE i \in 1 .. n : positions[i] = c
                   ELSE IF king.on /\ c = king.at THEN KING_MARK
                   ELSE IF bomb.on /\ c = bomb.at THEN BOMB_MARK
                   ELSE IF powerup.on /\ c = powerup.at THEN POWERUP_MARK
                   ELSE EMPTY],
     board_side_len |-> side, max_players |-> n,
     registration_fee_lamports |-> REGISTRATION_FEE_LAMPORTS,
     lamports_per_score |-> LAMPORTS_PER_SCORE,
     players_count |-> n, king_current_position |-> king.at,
     game_end_timestamp |-> SESSION_SECONDS,
     powerup_current_position |-> powerup.at, bomb_current_position |-> bomb.at]

On(c) == [at |-> c, on |-> TRUE]
Off(c) == [at |-> c, on |-> FALSE]

\* Each board below is produced from start_game_session by the calls listed.
PlayBoards ==
    { \* register x2
      Layout(8, 2, <<0, 1>>, <<0, 0>>, On(27), Off(0), Off(0)),
      \* register x4
      Layout(10, 4, <<0, 1, 2, 3>>, <<0, 0, 0, 0>>, On(44), Off(0), Off(0)),
      \* register x6
      Layout(12, 6, <<0, 1, 2, 3, 4, 5>>, <<0, 0, 0, 0, 0, 0>>, On(65), Off(0), Off(0)),
      \* register x2; powerup sampled at 8; 1 Down, 1 Up; 2 Down x4, 2 Left
      Layout(8, 2, <<0, 32>>, <<POWERUP_SCORE, 0>>, On(27), Off(0), Off(8)),
      \* register x2; 2 Down; 1 Right; bomb sampled at 10
      Layout(8, 2, <<1, 9>>, <<0, 0>>, On(27), On(10), Off(0)),
      \* register x4; 4 Right x3; 3 Right x3; powerup sampled at 10; 1 Down, 1 Up
      Layout(10, 4, <<0, 1, 5, 6>>, <<POWERUP_SCORE, 0, 0, 0>>, On(44), Off(0), Off(10)),
      \* register x6; 6 Right; 5 Right; powerup sampled at 12; 1 Down, 1 Up
      Layout(12, 6, <<0, 1, 2, 3, 5, 6>>, <<POWERUP_SCORE, 0, 0, 0, 0, 0>>,
             On(65), Off(0), Off(12)),
      \* register x6; powerup sampled at 12; 1 Down, 1 Up; king sampled at 16;
      \* 5 Down; 2 Down; 3 Down; 4 Down
      Layout(12, 6, <<0, 13, 14, 15, 16, 5>>, <<POWERUP_SCORE, 0, 0, 0, 0, 0>>,
             Off(16), Off(0), Off(12)) }

InitPlay ==
    /\ board_account \in PlayBoards
    /\ initialized = TRUE
    /\ now = 0
    /\ paid = [i \in 1 .. board_account.players_count |-> 0]
    /\ ops = 0
    /\ last = Call("none", board_account)

SpecPlay == InitPlay /\ [][Next]_vars

(* ------------------------------ properties ----------------------------- *)
Registered(b) == 1 .. Len(b.players)
ActiveCells(b) == 0 .. (active_board_cells(b) - 1)
PositionOf(b, p) == b.players[p].current_position
Done(op) == last.op = op /\ last.err = "Ok"

\* the kinds of occupant the mark of cell c agrees with
KindsAt(b, c) ==
    (IF b.board[c] = EMPTY THEN {"Empty"} ELSE {})
    \cup (IF b.board[c] = KING_MARK /\ b.king_current_position = c THEN {"King"} ELSE {})
    \cup (IF b.board[c] = BOMB_MARK /\ b.bomb_current_position = c THEN {"Bomb"} ELSE {})
    \cup (IF b.board[c] = POWERUP_MARK /\ b.powerup_current_position = c
          THEN {"Powerup"} ELSE {})
    \cup (IF \E p \in Registered(b) : b.board[c] = b.players[p].id /\ PositionOf(b, p) = c
          THEN {"Player"} ELSE {})

OneOccupant(b) ==
    /\ \A p, q \in Registered(b) : p # q => PositionOf(b, p) # PositionOf(b, q)
    /\ \A c \in ActiveCells(b) : Cardinality(KindsAt(b, c)) = 1
    /\ \A p \in Registered(b) : b.board[PositionOf(b, p)] = b.players[p].id

\* C1: in every reachable state no two registered players share a cell, and
\* every cell's mark is exactly one of Empty, King at the king index, Bomb at
\* the bomb index, Powerup at the powerup index, or the id of the player whose
\* current_position is that cell.
C1_OneOccupantPerCell == initialized => OneOccupant(board_account)

\* C2: for the session's configuration the marks of Empty, King, Bomb and
\* Powerup are pairwise distinct and none is an assignable player id
\* 1..max_players.
C2_MarksDistinctFromIds ==
    initialized =>
        /\ Cardinality({EMPTY, KING_MARK, BOMB_MARK, POWERUP_MARK}) = 4
        /\ {EMPTY, KING_MARK, BOMB_MARK, POWERUP_MARK}
               \cap (1 .. board_account.max_players) = {}

\* C3: after an accepted make_move from cell X into a cell Y on which another
\* player stood, the actor stands on Y, that player no longer does, and X and
\* Y do not both still carry their marks of before the move.
C3_BasicPushDisplaces ==
    Done("make_move") =>
        LET pre == last.pre
            a == last.player_id
            X == PositionOf(pre, a)
            Y == last.position
        IN  \A q \in Registered(pre) :
                (q # a /\ PositionOf(pre, q) = Y /\ pre.board[Y] = pre.players[q].id) =>
                    /\ PositionOf(board_account, a) = Y
                    /\ PositionOf(board_account, q) # Y
                    /\ ~(board_account.board[X] = pre.board[X]
                         /\ board_account.board[Y] = pre.board[Y])

\* the cells strictly between a cell and the board edge in a direction,
\* within the cell's own row (Left, Right) or column (Up, Down)
ScanCells(b, pos, direction) ==
    LET side == b.board_side_len
        row == pos \div side
        col == pos % side
    IN  CASE direction = "Right" -> { row * side + k : k \in (col + 1) .. (side - 1) }
          [] direction = "Left"  -> { row * side + k : k \in 0 .. (col - 1) }
          [] direction = "Down"  -> { r * side + col : r \in (row + 1) .. (side - 1) }
          [] direction = "Up"    -> { r * side + col : r \in 0 .. (row - 1) }

\* the players standing in that stretch, and the one nearest to the cell
PlayersAhead(b, pos, direction) ==
    { p \in Registered(b) : PositionOf(b, p) \in ScanCells(b, pos, direction) }

Nearest(b, pos, direction) ==
    { p \in PlayersAhead(b, pos, direction) :
        \A q \in PlayersAhead(b, pos, direction) :
            abs(PositionOf(b, p) - pos) <= abs(PositionOf(b, q) - pos) }

SamePositions(b1, b2) ==
    \A p \in Registered(b1) : PositionOf(b1, p) = PositionOf(b2, p)

\* C4: use_power never changes the acting player's own current_position.
C4_ActorKeepsPosition ==
    Done("use_power") =>
        PositionOf(board_account, last.player_id) = PositionOf(last.pre, last.player_id)

\* the case of C5: an accepted use_power with no player standing between the
\* actor and the board edge in the chosen direction
C5_NobodyAhead ==
    /\ Done("use_power")
    /\ PlayersAhead(last.pre, PositionOf(last.pre, last.player_id), last.direction) = {}

\* C5 as stated: with nobody to find, board and positions are unchanged and
\* the actor's powerup_score is cleared to 0.
C5_ChargeConsumedAnyway ==
    C5_NobodyAhead =>
        /\ board_account.board = last.pre.board
        /\ SamePositions(board_account, last.pre)
        /\ board_account.players[last.player_id].powerup_score = 0

\* C5 amended: with nobody to find, use_power changes nothing at all: board,
\* positions and the actor's powerup_score (the charge is kept) are as before.
C5_NothingAheadChangesNothing ==
    C5_NobodyAhead => board_account = last.pre

C5_Witness ==
    /\ C5_NobodyAhead
    /\ last.pre.players[last.player_id].powerup_score = POWERUP_SCORE

\* the case of C6: the target found is the nearest player ahead, another
\* player stands on the target's push destination, and the cell one basic
\* step beyond that player is not Empty
C6_Blocked ==
    /\ Done("use_power")
    /\ LET pre == last.pre
           a == last.player_id
           t == last.target + 1
           step == offset(last.direction, pre.board_side_len)
           cells == active_board_cells(pre)
       IN  /\ t \in Nearest(pre, PositionOf(pre, a), last.direction)
           /\ LET dest == rem_euclid(PositionOf(pre, t) + POWERUP_SCORE * step, cells)
              IN  /\ \E q \in Registered(pre) \ {t} : PositionOf(pre, q) = dest
                  /\ pre.board[rem_euclid(dest + step, cells)] # EMPTY

\* C6: a blocked power push moves nobody, changes no cell, and still clears
\* the actor's powerup_score.
C6_BlockedPushOnlyConsumesCharge ==
    C6_Blocked =>
        /\ board_account.board = last.pre.board
        /\ SamePositions(board_account, last.pre)
        /\ board_account.players[last.player_id].powerup_score = 0

(* ------------------------------ crowded boards ------------------------- *)
\* Boards for the placement routine alone: every active cell but `hole` is
\* marked.  The players stand on their starting cells, each tile has a
\* recorded index and is marked there when `on`; the cells left over carry
\* the ids of the first two players.  Play never fills a board this far; a
\* callback is run once on each of these boards, as a test harness would.
CrowdedModes == { <<8, 2>>, <<10, 4>> }

CrowdedHoles(side, n) == { n, 3 * side + 6, side * side - 1 }

Crowded(side, n, hole, king_on, bomb_on, powerup_on) ==
    LET seat == Layout(side, n, [i \in 1 .. n |-> i - 1], [i \in 1 .. n |-> 0],
                       [at |-> king_starting_position(side), on |-> king_on],
                       [at |-> side, on |-> bomb_on],
                       [at |-> side + 1, on |-> powerup_on])
    IN  [seat EXCEPT !.board =
            [c \in Cells |->
                IF c = hole \/ c >= side * side THEN EMPTY
                ELSE IF seat.board[c] # EMPTY THEN seat.board[c]
                ELSE (c % 2) + 1]]

InitCrowded ==
    /\ \E m \in CrowdedModes, king_on \in BOOLEAN, bomb_on \in BOOLEAN,
          powerup_on \in BOOLEAN :
          \E hole \in CrowdedHoles(m[1], m[2]) :
              board_account = Crowded(m[1], m[2], hole, king_on, bomb_on, powerup_on)
    /\ initialized = TRUE
    /\ now = 0
    /\ paid = [i \in 1 .. board_account.players_count |-> 0]
    /\ ops = 0
    /\ last = Call("none", board_account)

\* one callback per board; the oracle may answer with any active cell
NextCrowded ==
    /\ ops = 0
    /\ \/ \E c \in 0 .. (active_board_cells(board_account) - 1) : callback_bomb_drop(c)
       \/ \E c \in 0 .. (active_board_cells(board_account) - 1) : callback_king_move(c)
       \/ \E c \in 0 .. (active_board_cells(board_account) - 1) : callback_spawn_powerup(c)

SpecCrowded == InitCrowded /\ [][NextCrowded]_vars

(* ------------------------------ properties, continued ------------------ *)
SpawnOps == {"callback_king_move", "callback_bomb_drop", "callback_spawn_powerup"}

TileMark(op) ==
    CASE op = "callback_king_move" -> KING_MARK
      [] op = "callback_bomb_drop" -> BOMB_MARK
      [] op = "callback_spawn_powerup" -> POWERUP_MARK

TileIndex(b, op) ==
    CASE op = "callback_king_move" -> b.king_current_position
      [] op = "callback_bomb_drop" -> b.bomb_current_position
      [] op = "callback_spawn_powerup" -> b.powerup_current_position

EmptyCells(b) == { c \in ActiveCells(b) : b.board[c] = EMPTY }

\* the cell of S met first when stepping from cell `from` upwards, cyclically
CyclicFirst(S, from, n) ==
    CHOOSE c \in S : \A d \in S : ((c - from) % n) <= ((d - from) % n)

\* the case of C7: a callback has run on a board with exactly one Empty cell
C7_OneEmptyCell ==
    /\ last.op \in SpawnOps
    /\ last.err = "Ok"
    /\ Cardinality(EmptyCells(last.pre)) = 1

TileMarkOnBoard == last.pre.board[TileIndex(last.pre, last.op)] = TileMark(last.op)

Bombed ==
    { ev.player_index + 1 : ev \in { last.events[i] : i \in DOMAIN last.events } \cap
          [kind : {"PlayerScoredBombEvent"}, player_index : 0 .. BOARD_SIZE] }

\* where C8 says player p lands: the first Empty cell at or after its
\* registration index once its old cell and the bomb cell are cleared
BombHome(pre, p) ==
    LET cleared == { c \in ActiveCells(pre) :
                        \/ pre.board[c] \in {EMPTY, BOMB_MARK}
                        \/ c = PositionOf(pre, p) }
    IN  CyclicFirst(cleared, p - 1, active_board_cells(pre))

\* C8: a player with registration index h that resolves onto the Bomb cell
\* ends on the first cell at or cyclically after h that is Empty once its old
\* cell and the bomb cell are cleared; no cell carries the Bomb mark, and the
\* old cell no longer carries the player's mark unless it is the landing cell.
C8_BombSendsHome ==
    (last.err = "Ok" /\ last.op \in {"make_move", "use_power"}) =>
        \A p \in Bombed :
            LET old == PositionOf(last.pre, p)
                land == BombHome(last.pre, p)
            IN  /\ \A c \in ActiveCells(board_account) :
                       board_account.board[c] # BOMB_MARK
                /\ PositionOf(board_account, p) = land
                /\ (old # land => board_account.board[old] # last.pre.players[p].id)

C8_Witness ==
    /\ Done("make_move")
    /\ \E p \in Bombed :
          /\ last.pre.board[p - 1] \notin {EMPTY, BOMB_MARK}
          /\ PositionOf(last.pre, p) # p - 1
          /\ PositionOf(board_account, p) # p - 1

\* C9: in a basic-step collision where the occupant's computed cell (its
\* position + 2*offset, wrapped) is Empty, the occupant ends on that cell, the
\* actor on the occupant's former cell, and the actor's former cell is Empty.
C9_PushOntoEmptyCell ==
    Done("make_move") =>
        LET pre == last.pre
            a == last.player_id
            X == PositionOf(pre, a)
            Y == last.position
            Z == rem_euclid(Y + 2 * offset(last.direction, pre.board_side_len),
                            active_board_cells(pre))
        IN  \A q \in Registered(pre) \ {a} :
                (/\ PositionOf(pre, q) = Y
                 /\ pre.board[Y] = pre.players[q].id
                 /\ pre.board[Z] = EMPTY) =>
                    /\ PositionOf(board_account, q) = Z
                    /\ board_account.board[Z] = pre.players[q].id
                    /\ PositionOf(board_account, a) = Y
                    /\ board_account.board[Y] = pre.players[a].id
                    /\ board_account.board[X] = EMPTY

\* what C10 requires of a make_move that changes anything
MoveAllowed(b, player_id, payer, unix_timestamp) ==
    /\ b.is_active
    /\ b.players_count = b.max_players
    /\ unix_timestamp < b.game_end_timestamp
    /\ player_id \in 1 .. Len(b.players)
    /\ b.players[player_id].id = player_id
    /\ b.players[player_id].player = payer

\* C10: make_move changes the board or a player record only if the session
\* is active and full, the clock is before game_end_timestamp, and the player
\* record at player_id - 1 has that id and the caller's key; otherwise the
\* call returns an error and the account is as before.
C10_MoveOnlyWhenAllowed ==
    last.op = "make_move" =>
        IF MoveAllowed(last.pre, last.player_id, last.payer, now)
        THEN TRUE
        ELSE last.err # "Ok" /\ board_account = last.pre

C10_Witness ==
    /\ Done("make_move")
    /\ MoveAllowed(last.pre, last.player_id, last.payer, now)
    /\ board_account.board # last.pre.board

\* C11: register_player called with players_count already at max_players
\* is rejected with MaxPlayersReached and leaves the account (board, player
\* list, players_count, is_active, game_end_timestamp) as it was.
C11_FullSessionRejectsRegistration ==
    (last.op = "register_player" /\ last.pre.players_count = last.pre.max_players) =>
        /\ last.err = "MaxPlayersReached"
        /\ board_account = last.pre

C11_Witness ==
    /\ last.op = "register_player"
    /\ last.pre.players_count = last.pre.max_players
    /\ last.pre.max_players = 2
    /\ last.err = "MaxPlayersReached"
    /\ Len(board_account.players) = 2

C13_KthPlayer ==
    initialized =>
        /\ \A i \in Registered(board_account) : board_account.players[i].id = i
        /\ Len(board_account.players) = board_account.players_count
        /\ Done("register_player") =>
               LET k == Len(last.pre.players) + 1 IN
               /\ Len(board_account.players) = k
               /\ board_account.players[k] =
                      [player |-> last.payer, score |-> 0, current_position |-> k - 1,
                       id |-> k, powerup_score |-> 0]
               /\ board_account.board[k - 1] = k
               /\ \A i \in Registered(last.pre) :
                      board_account.players[i] = last.pre.players[i]

C13_Witness ==
    /\ Done("register_player")
    /\ Len(board_account.players) = 3
    /\ board_account.board[2] = 3

\* the configurations C14 admits
ValidConfig(args) ==
    /\ <<args[1], args[2]>> \in { <<8, 2>>, <<10, 4>>, <<12, 6>> }
    /\ args[3] # 0
    /\ args[4] # 0

\* a start_game_session that reached the handler (the account did not exist)
StartHandled == last.op = "start_game_session" /\ last.err # "AccountInUse"

\* C14: start_game_session succeeds if and only if (board_side_len,
\* max_players) is one of (8,2), (10,4), (12,6) and both the registration fee
\* and the reward rate are non-zero; otherwise it is rejected with
\* InvalidGameConfig.
C14_StartAcceptsValidConfigOnly ==
    StartHandled =>
        IF ValidConfig(last.args)
        THEN last.err = "Ok"
        ELSE last.err = "InvalidGameConfig" /\ ~initialized

C14_Witness ==
    /\ StartHandled
    /\ last.err = "InvalidGameConfig"
    /\ <<last.args[1], last.args[2]>> = <<8, 4>>
    /\ last.args[3] > 0
    /\ last.args[4] > 0

C16_RewardsOnlyAfterEnd ==
    last.op = "distribute_rewards" =>
        /\ (now < last.pre.game_end_timestamp =>
                /\ last.err = "GameNotOver"
                /\ board_account = last.pre)
        /\ (last.err = "Ok" => ~board_account.is_active)

C16_Witness ==
    /\ last.op = "distribute_rewards"
    /\ now < last.pre.game_end_timestamp
    /\ last.pre.is_active
    /\ last.err = "GameNotOver"

\* the account of a full session after distribute_rewards has succeeded:
\* only distribute_rewards clears is_active, and only at or after the end
RewardsDistributed(b, unix_timestamp) ==
    /\ b.players_count = b.max_players
    /\ b.players_count > 0
    /\ ~b.is_active
    /\ unix_timestamp >= b.game_end_timestamp

SameScoresAndPositions(b1, b2) ==
    \A p \in Registered(b1) :
        /\ b1.players[p].score = b2.players[p].score
        /\ b1.players[p].current_position = b2.players[p].current_position

\* C17: after distribute_rewards has succeeded, no call of make_move,
\* use_power, update_player_score or set_king_position changes any player's
\* score or current_position.
C17_FrozenAfterRewards ==
    (/\ last.op \in {"make_move", "use_power", "update_player_score",
                     "set_king_position"}
     /\ RewardsDistributed(last.pre, now)) =>
        SameScoresAndPositions(board_account, last.pre)

\* the players standing on the king's recorded cell
OnKingCell(b) ==
    { p \in Registered(b) : PositionOf(b, p) = b.king_current_position }

\* C18: update_player_score adds exactly 1 to the score of the player whose
\* current_position is king_current_position, if there is one, changes no
\* score when nobody stands there (also when the cell still carries the King
\* mark), and changes nothing else.
C18_ScoreTickForKingHolder ==
    Done("update_player_score") =>
        LET pre == last.pre IN
        /\ \A p \in Registered(pre) :
               board_account.players[p] =
                   [pre.players[p] EXCEPT !.score =
                       IF p \in OnKingCell(pre) THEN @ + 1 ELSE @]
        /\ [board_account EXCEPT !.players = pre.players] = pre

\* C19: use_power for a player whose powerup_score is 0 is rejected with
\* NoPowerup and leaves the board and every player record as they were.
C19_NoChargeNoPower ==
    (/\ last.op = "use_power"
     /\ last.player_id \in Registered(last.pre)
     /\ last.pre.players[last.player_id].powerup_score = 0) =>
        /\ last.err = "NoPowerup"
        /\ board_account = last.pre

C19_Witness ==
    /\ last.op = "use_power"
    /\ last.player_id \in Registered(last.pre)
    /\ last.pre.players[last.player_id].powerup_score = 0
    /\ last.pre.is_active
    /\ PlayersAhead(last.pre, PositionOf(last.pre, last.player_id), "Right") # {}
    /\ last.err = "NoPowerup"

\* what a successful set_king_position leaves, as C20 says: the King mark on
\* the cell, king_current_position on it, the previous king cell cleared only
\* if it carried the King mark, every other cell and field as before
KingPlaced(pre, post, index) ==
    LET old == pre.king_current_position IN
    /\ post.board[index] = KING_MARK
    /\ post.king_current_position = index
    /\ \A c \in Cells \ {index} :
           post.board[c] = IF c = old /\ pre.board[old] = KING_MARK
                           THEN EMPTY ELSE pre.board[c]
    /\ [post EXCEPT !.board = pre.board,
                    !.king_current_position = pre.king_current_position] = pre

KingCellFree(pre, index) ==
    index < active_board_cells(pre) /\ pre.board[index] = EMPTY

C22_DestinationVacated ==
    Done("make_move") =>
        \A i \in DOMAIN last.chain :
            /\ last.chain[i].cell = EMPTY
            /\ last.chain[i].pushed_pos # last.chain[i].dest

\* the case of C23: use_power found a target whose push destination, four
\* steps on and wrapped, is Empty
PushDest(pre, t, direction) ==
    rem_euclid(PositionOf(pre, t) + 4 * offset(direction, pre.board_side_len),
               active_board_cells(pre))

C23_FreeDestination ==
    /\ Done("use_power")
    /\ last.target >= 0
    /\ last.pre.board[PushDest(last.pre, last.target + 1, last.direction)] = EMPTY

\* C23: when use_power finds a target and the cell at (target position +
\* 4*offset) mod side^2 is Empty, the target's current_position becomes that
\* cell, its former cell becomes Empty, the actor's powerup_score becomes 0
\* and no other player's position changes.
C23_PowerPushOntoEmptyCell ==
    C23_FreeDestination =>
        LET pre == last.pre
            t == last.target + 1
            dest == PushDest(pre, t, last.direction)
        IN  /\ PositionOf(board_account, t) = dest
            /\ board_account.board[dest] = pre.players[t].id
            /\ board_account.board[PositionOf(pre, t)] = EMPTY
            /\ board_account.players[last.player_id].powerup_score = 0
            /\ \A q \in Registered(pre) \ {t} :
                   PositionOf(board_account, q) = PositionOf(pre, q)

\* the push wraps past the bottom edge
C23_Witness ==
    /\ C23_FreeDestination
    /\ last.direction = "Down"
    /\ PushDest(last.pre, last.target + 1, last.direction)
           < PositionOf(last.pre, last.target + 1)
    /\ PositionOf(board_account, last.target + 1)
           = PushDest(last.pre, last.target + 1, last.direction)

\* C24: the player targeted by use_power is the nearest player strictly in
\* the chosen direction within the actor's row (Left, Right) or column (Up,
\* Down) up to the board edge; nobody beyond an edge is targeted, and if any
\* player lies in that stretch the nearest one is targeted.
C24_NearestPlayerAheadIsTargeted ==
    Done("use_power") =>
        LET pre == last.pre
            from == PositionOf(pre, last.player_id)
        IN  IF PlayersAhead(pre, from, last.direction) = {}
            THEN last.target = -1
            ELSE last.target + 1 \in Nearest(pre, from, last.direction)

\* a spawn callback has run to completion
Spawned == last.op \in SpawnOps /\ last.err = "Ok"

\* the cells that are Empty once the callback has cleared the tile's old cell
EmptyAfterClearing ==
    EmptyCells(last.pre)
        \cup (IF TileMarkOnBoard THEN {TileIndex(last.pre, last.op)} ELSE {})

\* C25: after a spawn callback with sampled candidate c the tile's new index
\* is the first cell in the cyclic order c, c+1, ... (mod side^2) that is
\* Empty after the old-site clearing step; that cell carries the tile's mark,
\* the tile's index field equals it, and at most one cell of the board
\* carries that tile's mark.
C25_TileOnFirstEmptyCellOnly ==
    Spawned =>
        LET land == CyclicFirst(EmptyAfterClearing, last.position,
                                active_board_cells(last.pre))
        IN  /\ TileIndex(board_account, last.op) = land
            /\ board_account.board[land] = TileMark(last.op)
            /\ Cardinality({ c \in ActiveCells(board_account) :
                               board_account.board[c] = TileMark(last.op) }) <= 1

\* the cells on which a player stands, carrying that player's mark
PlayerCells(b) ==
    { c \in ActiveCells(b) :
        \E p \in Registered(b) : PositionOf(b, p) = c /\ b.board[c] = b.players[p].id }

\* C26: a spawn callback changes no player's current_position, score or
\* charge and no cell that carries a player's mark: a player standing on the
\* tile's previous index keeps its cell, and the old index is cleared only
\* when it still carries the tile's own mark.
C26_SpawnLeavesPlayersAlone ==
    Spawned =>
        LET old == TileIndex(last.pre, last.op) IN
        /\ board_account.players = last.pre.players
        /\ \A c \in PlayerCells(last.pre) : board_account.board[c] = last.pre.board[c]
        /\ (old \notin PlayerCells(last.pre) /\ ~TileMarkOnBoard /\ old # TileIndex(board_account, last.op)
               => board_account.board[old] = last.pre.board[old])

\* C27: in every reachable state of every supported configuration some cell
\* in [0, side^2) is Empty, so the probe of a spawn callback always ends.
C27_SomeCellIsEmpty ==
    initialized =>
        /\ EmptyCells(board_account) # {}
        /\ last.err # "ComputeBudgetExceeded"

\* a callback whose sampled cell was taken and whose probe went on from it
C27_Witness ==
    /\ Spawned
    /\ last.pre.board[last.position] # EMPTY
    /\ TileIndex(board_account, last.op) # last.position
    /\ board_account.players_count = 6
    /\ EmptyCells(board_account) # {}

\* the players for which the last call raised the event `kind`
Signalled(kind) ==
    { last.events[i].player_index + 1 :
        i \in { j \in DOMAIN last.events : last.events[j].kind = kind } }

\* the records of the basic pushes in which player p was the one displaced
PushesOf(p) ==
    { last.chain[i] : i \in { j \in DOMAIN last.chain : last.chain[j].pushed = p - 1 } }

\* player p has left the cell it stood on before the call: the cell was Empty
\* right after p resolved (a displaced player's cell is then entered by the
\* player that pushed it)
LeftCellEmpty(p) ==
    IF PushesOf(p) = {}
    THEN board_account.board[PositionOf(last.pre, p)] = EMPTY
    ELSE \A rec \in PushesOf(p) : rec.cell = EMPTY

\* C28: when a player resolves onto the King cell it is relocated there (the
\* cell carries its id, its old cell is Empty, current_position is updated),
\* no player's score changes and king_current_position is unchanged.
C28_KingLandingOnlyRelocates ==
    (Done("make_move") \/ Done("use_power")) =>
        LET pre == last.pre IN
        /\ (Done("make_move") /\ pre.board[last.position] = KING_MARK
               => last.player_id \in Signalled("PlayerScoredEvent"))
        /\ \A p \in Signalled("PlayerScoredEvent") :
               LET k == PositionOf(board_account, p) IN
               /\ pre.board[k] = KING_MARK
               /\ k # PositionOf(pre, p)
               /\ board_account.board[k] = pre.players[p].id
               /\ LeftCellEmpty(p)
               /\ \A q \in Registered(pre) :
                      board_account.players[q].score = pre.players[q].score
               /\ board_account.king_current_position = pre.king_current_position

\* a displaced player lands on the King
C28_Witness ==
    /\ Done("make_move")
    /\ \E p \in Signalled("PlayerScoredEvent") :
           /\ PushesOf(p) # {}
           /\ PositionOf(board_account, p) = last.pre.king_current_position
           /\ last.pre.board[last.pre.king_current_position] = KING_MARK
           /\ board_account.king_current_position = last.pre.king_current_position

\* the player whose charge use_power itself clears, if the call was one
PowerUser == IF Done("use_power") THEN {last.player_id} ELSE {}

\* C29: when a player resolves onto the Powerup cell, by its own move or by
\* being displaced, it is relocated there as in the Empty case, its
\* powerup_score becomes 4, no cell carries the Powerup mark afterwards and
\* no other player's charge changes (the charge that use_power takes from
\* its actor is the effect of use_power, not of the landing).
C29_PowerupLandingGrantsCharge ==
    (Done("make_move") \/ Done("use_power")) =>
        LET pre == last.pre IN
        /\ (Done("make_move") /\ pre.board[last.position] = POWERUP_MARK
               => last.player_id \in Signalled("PlayerScoredPowerupEvent"))
        /\ \A p \in Signalled("PlayerScoredPowerupEvent") :
               LET k == PositionOf(board_account, p) IN
               /\ pre.board[k] = POWERUP_MARK
               /\ k # PositionOf(pre, p)
               /\ board_account.board[k] = pre.players[p].id
               /\ LeftCellEmpty(p)
               /\ board_account.players[p].powerup_score = 4
               /\ \A c \in ActiveCells(board_account) :
                      board_account.board[c] # POWERUP_MARK
               /\ \A q \in Registered(pre) \ ({p} \cup PowerUser) :
                      board_account.players[q].powerup_score
                          = pre.players[q].powerup_score

\* the case of C30: an accepted make_move onto an Empty cell
C30_OntoEmptyCell ==
    Done("make_move") /\ last.pre.board[last.position] = EMPTY

\* C30: an accepted make_move whose destination cell is Empty changes
\* exactly the destination cell (to the actor's id), the actor's old cell (to
\* Empty) and the actor's current_position; every other cell, every other
\* player's record, the actor's score and charge and the king, bomb and
\* powerup index fields are unchanged.
C30_MoveOntoEmptyCellFrame ==
    C30_OntoEmptyCell =>
        LET pre == last.pre
            a == last.player_id
            X == PositionOf(pre, a)
            Y == last.position
        IN  /\ board_account.board[Y] = pre.players[a].id
            /\ board_account.board[X] = EMPTY
            /\ PositionOf(board_account, a) = Y
            /\ \A c \in Cells \ {X, Y} : board_account.board[c] = pre.board[c]
            /\ \A q \in Registered(pre) \ {a} :
                   board_account.players[q] = pre.players[q]
            /\ board_account.players[a].score = pre.players[a].score
            /\ board_account.players[a].powerup_score = pre.players[a].powerup_score
            /\ board_account.king_current_position = pre.king_current_position
            /\ board_account.bomb_current_position = pre.bomb_current_position
            /\ board_account.powerup_current_position = pre.powerup_current_position

\* a move off the right edge of a row onto the first cell of the next row
C30_Witness ==
    /\ C30_OntoEmptyCell
    /\ last.direction = "Right"
    /\ last.position % last.pre.board_side_len = 0
    /\ board_account.board[last.position] = last.player_id
    /\ board_account.board[PositionOf(last.pre, last.player_id)] = EMPTY

\* the cell a basic push sends the occupant of cell dest to
PushedOnto(pre, dest, direction) ==
    rem_euclid(dest + 2 * offset(direction, pre.board_side_len),
               active_board_cells(pre))

\* C31: the chain of basic pushes started by one make_move terminates: it
\* displaces each player at most once, never reaches the acting player's own
\* cell, and its depth is at most the number of registered players.  A move
\* onto a cell carrying a player's mark starts the chain with the actor as
\* the first mover.
C31_PushChainIsBounded ==
    Done("make_move") =>
        LET pre == last.pre
            ch == last.chain
            X == PositionOf(pre, last.player_id)
        IN  /\ Len(ch) <= pre.players_count
            /\ \A i, j \in DOMAIN ch : i # j => ch[i].pushed # ch[j].pushed
            /\ \A i \in DOMAIN ch :
                   /\ ch[i].pushed # last.player_id - 1
                   /\ ch[i].dest # X
                   /\ PushedOnto(pre, ch[i].dest, last.direction) # X
            /\ (check_if_player_exists(last.position, pre)
                   => /\ ch # <<>>
                      /\ ch[Len(ch)].mover = last.player_id - 1
                      /\ ch[Len(ch)].dest = last.position)

\* a chain two pushes deep
C31_Witness ==
    /\ Done("make_move")
    /\ Len(last.chain) >= 2
    /\ last.chain[1].mover = last.chain[2].pushed
    /\ last.chain[1].dest = PushedOnto(last.pre, last.chain[2].dest, last.direction)

\* C32: in every reachable state is_active implies that players_count equals
\* max_players; so a rejected register_player fails the capacity check and
\* never reports GameAlreadyStarted.
C32_ActiveMeansFull ==
    /\ board_account.is_active =>
           board_account.players_count = board_account.max_players
    /\ last.err # "GameAlreadyStarted"
    /\ (last.op = "register_player" /\ last.err # "Ok"
           => /\ last.err = "MaxPlayersReached"
              /\ last.pre.players_count = last.pre.max_players)

\* a registration refused while the session is running
C32_Witness ==
    /\ last.op = "register_player"
    /\ last.err = "MaxPlayersReached"
    /\ last.pre.is_active
    /\ board_account.is_active
    /\ board_account.players_count = board_account.max_players

\* C33: for any clock value >= 0, make_move on a board that is not active
\* (registration incomplete, or already finalized) is rejected with
\* GameEnded, since the time check comes first and game_end_timestamp is 0
\* until activation; make_move never reports GameNotStarted or GameNotFull.
C33_InactiveBoardReportsGameEnded ==
    last.op = "make_move" =>
        /\ now >= 0
        /\ (~last.pre.is_active => last.err = "GameEnded")
        /\ last.err \notin {"GameNotStarted", "GameNotFull"}
        /\ (last.pre.players_count < last.pre.max_players
               => last.pre.game_end_timestamp = 0)

\* a move tried on a session that distribute_rewards has closed
C33_Witness ==
    /\ last.op = "make_move"
    /\ last.err = "GameEnded"
    /\ ~last.pre.is_active
    /\ last.pre.players_count = last.pre.max_players
    /\ last.pre.game_end_timestamp > 0
    /\ now >= last.pre.game_end_timestamp

\* the values a cell must carry to be read as a player id by the movement
\* helpers: anything but the Empty, King, Bomb and Powerup marks
ReadAsPlayerId(v) == v \notin {EMPTY, KING_MARK, BOMB_MARK, POWERUP_MARK}

\* C34: in every reachable state each registered player's current_position
\* lies in [0, side^2) and players[i].id equals i+1, so every board access
\* indexed by a player's position or by a player id read from the board stays
\* in range (the only panics are those of player_id 0 passed by the caller).
C34_PositionsAndIdsInRange ==
    initialized =>
        LET b == board_account
            side == b.board_side_len
        IN  /\ Len(b.players) = b.players_count
            /\ \A p \in 1 .. Len(b.players) :
                   /\ b.players[p].current_position >= 0
                   /\ b.players[p].current_position < side * side
                   /\ b.players[p].id = p
            /\ \A c \in 0 .. (side * side - 1) :
                   ReadAsPlayerId(b.board[c]) =>
                       b.board[c] >= 1 /\ b.board[c] <= Len(b.players)
            /\ (last.err = "Panic" => last.player_id = 0)

\* a player has wrapped from cell 0 to the last cell of the board
C34_Witness ==
    /\ Done("make_move")
    /\ last.direction = "Left"
    /\ PositionOf(last.pre, last.player_id) = 0
    /\ PositionOf(board_account, last.player_id)
           = board_account.board_side_len * board_account.board_side_len - 1
    /\ board_account.players[last.player_id].id = last.player_id

\* C35: a player's score never decreases and is changed only by
\* update_player_score: make_move, use_power, the spawn callbacks,
\* set_king_position, register_player and distribute_rewards leave every
\* existing player's score unchanged.
C35_OnlyScoreTickChangesScores ==
    \A q \in Registered(last.pre) :
        /\ q \in Registered(board_account)
        /\ board_account.players[q].score >= last.pre.players[q].score
        /\ (last.op # "update_player_score"
               => board_account.players[q].score = last.pre.players[q].score)

\* update_player_score has raised a score
C35_Witness ==
    /\ Done("update_player_score")
    /\ \E q \in Registered(last.pre) :
           /\ PositionOf(last.pre, q) = last.pre.king_current_position
           /\ board_account.players[q].score = last.pre.players[q].score + 1

(* ------------------------------ sessions with scores ------------------- *)
\* board b with the scores the relayer's update_player_score calls have given
WithScores(b, scores) ==
    [b EXCEPT !.players = [i \in DOMAIN b.players |->
                              [b.players[i] EXCEPT !.score = scores[i]]]]

\* Each board below is produced from start_game_session by the calls listed.
SettleBoards ==
    { \* register x2; king sampled at 8; 1 Down; update_player_score x2
      WithScores(Layout(8, 2, <<8, 1>>, <<0, 0>>, Off(8), Off(0), Off(0)),
                 <<2, 0>>),
      \* register x4; king sampled at 10; 1 Down; update_player_score;
      \* king sampled at 11; 2 Down; update_player_score
      WithScores(Layout(10, 4, <<10, 11, 2, 3>>, <<0, 0, 0, 0>>,
                        Off(11), Off(0), Off(0)),
                 <<1, 1, 0, 0>>) }

InitSettle ==
    /\ board_account \in SettleBoards
    /\ initialized = TRUE
    /\ now = 0
    /\ paid = [i \in 1 .. board_account.players_count |-> 0]
    /\ ops = 0
    /\ last = Call("none", board_account)

SpecSettle == InitSettle /\ [][Next]_vars

\* C36: each player is paid score * lamports_per_score at most once per game:
\* once distribute_rewards has succeeded on a board, a later
\* distribute_rewards call on it transfers no further reward, so what a
\* player has received never exceeds its score times the rate.
C36_RewardPaidAtMostOnce ==
    initialized =>
        \A i \in 1 .. Len(paid) : paid[i] <= RewardOf(board_account, i - 1)

====
